---- MODULE Spec2Model ----
(***************************************************************************)
(* libbitcoin-client, src/proxy.cpp: the obelisk request facade, the       *)
(* response decoders and the two expansion algorithms (stealth, history).  *)
(*                                                                         *)
(* A response payload is a byte string.  It is represented by the whole    *)
(* items of the bound decoder's wire layout that it holds (rows), followed *)
(* by tail bytes that do not make up a whole item; its byte length is      *)
(* the sum of the item sizes plus tail.  The reader walks over the byte    *)
(* length exactly as the decoders drive it.                                *)
(***************************************************************************)
EXTENDS Integers, Sequences, FiniteSets, TLC

VARIABLES pc, call, request, payload, returned, on_reply_calls, on_error_calls,
          error_code, reply, send_calls, decoder_calls, expand_calls,
          assert_failed, matches

vars == <<pc, call, request, payload, returned, on_reply_calls, on_error_calls,
          error_code, reply, send_calls, decoder_calls, expand_calls,
          assert_failed, matches>>

(***************************************************************************)
(* Bounds of the model.                                                    *)
(***************************************************************************)
\* Most whole items (rows) in a delivered payload.
MaxRows == 2
\* Most rows in a compact history payload.
MaxHistoryRows == 3
\* Most trailing bytes short of a whole item (besides "one byte short").
MaxTail == 0

(***************************************************************************)
(* Program constants.                                                      *)
(***************************************************************************)
max_uint8 == 255
\* max_uint32 is 4294967295, beyond the integers of TLC; it is represented
\* by the largest integer TLC has.  No arithmetic is done on it, and no
\* other value of the model equals it.
max_uint32 == 2147483647
uint8_modulus == 256
hash_size == 32
short_hash_size == 20
byte_bits == 8
ephemeral_public_key_sign == 2
\* point_kind and subscribe_type enumerators.
kind_output == 0
kind_spend == 1
subscribe_address == 0
subscribe_stealth == 1
\* Wire sizes of the items the decoders read.
byte_size == 1
uint32_size == 4
uint64_size == 8
header_size == 80

point_size == hash_size + uint32_size
stealth_row_size == hash_size + short_hash_size + hash_size
history_row_size == byte_size + point_size + uint32_size + uint64_size
expanded_row_size == point_size + uint64_size + uint64_size
                     + point_size + uint64_size

(***************************************************************************)
(* Values.                                                                 *)
(***************************************************************************)
null_hash == [i \in 1..hash_size |-> 0]
hash_a == [i \in 1..hash_size |-> i]
hash_b == [i \in 1..hash_size |-> 2 * i]

short_a == [i \in 1..short_hash_size |-> i]
short_b == [i \in 1..short_hash_size |-> IF i = 1 THEN 9 ELSE 0]
short_c == [i \in 1..short_hash_size |-> 0]
ShortHashes == {short_a, short_b, short_c}

\* The values a 4-byte or 8-byte field takes in the payloads explored.  They
\* overlap on purpose: a height, an amount and a checksum can be equal.
SmallValues == {1, 2}

\* The unspent marker of a history row.
null_point == [hash |-> null_hash, index |-> max_uint32]

\* What a read past the end of the payload leaves in the destination.
Garbage == 0

\* reverse(): std::reverse_copy of a fixed-size array.
reverse(in) == [i \in 1..Len(in) |-> in[Len(in) + 1 - i]]

\* point::checksum(): a 64-bit key derived from the hash and the index of
\* the point; distinct points can share it.
checksum(point) == ((point.hash[1] + point.index) % 2) + 1

(***************************************************************************)
(* The reader over a payload of a given byte length.                       *)
(***************************************************************************)
make_reader(size) == [rem |-> size, valid |-> TRUE]

\* Any read of n bytes: it fails, and invalidates the reader, when fewer
\* than n bytes remain.
read_bytes(r, n) ==
    IF r.valid /\ r.rem >= n
    THEN [rem |-> r.rem - n, valid |-> TRUE]
    ELSE [rem |-> 0, valid |-> FALSE]

\* reader::is_exhausted(): no byte remains.  What it answers on a reader
\* that a failed read has invalidated depends on the reader implementation
\* linked in; exhausted_when_invalid is that answer.
is_exhausted(r, exhausted_when_invalid) ==
    IF r.valid THEN r.rem = 0 ELSE exhausted_when_invalid

(***************************************************************************)
(* Payloads.                                                               *)
(***************************************************************************)
\* Serialized transactions are self-delimiting and of varying size.
Transactions == { [id |-> 1, size |-> 10], [id |-> 2, size |-> 12] }
min_transaction_size == 10

StealthRows == [ephemeral_public_key_hash : {hash_a, hash_b},
                public_key_hash : ShortHashes,
                transaction_hash : {null_hash, hash_a}]

\* value and previous_checksum are one field (a union).  Output rows over
\* points of which two share a checksum; spend rows whose point has a
\* transaction hash or the null hash; one row of a kind that is neither.
HistoryRows ==
    [kind : {kind_output},
     point : {[hash |-> hash_a, index |-> 0], [hash |-> hash_a, index |-> 1],
              [hash |-> hash_b, index |-> 0]},
     height : {1}, value : SmallValues]
    \cup [kind : {kind_spend},
          point : {[hash |-> null_hash, index |-> 0],
                   [hash |-> hash_b, index |-> 0]},
          height : {2}, value : SmallValues]
    \cup {[kind |-> 2, point |-> [hash |-> hash_a, index |-> 0],
           height |-> 1, value |-> 1]}

ExpandedRows == [output : {[hash |-> hash_a, index |-> 0]},
                 output_height : {1}, value : SmallValues,
                 spend : {null_point, [hash |-> hash_b, index |-> 0]},
                 spend_height : {max_uint32, 2}]

Items(decoder) ==
    CASE decoder = "decode_empty" -> {0, 1}
      [] decoder = "decode_transaction" -> Transactions
      [] decoder = "decode_height" -> {0, 7}
      [] decoder = "decode_block_header" -> {1, 2}
      [] decoder = "decode_transaction_index" -> {0, 7}
      [] decoder = "decode_validate" -> {0, 7}
      [] decoder = "decode_stealth" -> StealthRows
      [] decoder = "decode_history" -> HistoryRows
      [] decoder = "decode_expanded_history" -> ExpandedRows

\* Size in bytes of one item of the decoder's layout (the smallest one
\* where items vary in size).
ItemSize(decoder) ==
    CASE decoder = "decode_empty" -> byte_size
      [] decoder = "decode_transaction" -> min_transaction_size
      [] decoder = "decode_height" -> uint32_size
      [] decoder = "decode_block_header" -> header_size
      [] decoder = "decode_transaction_index" -> uint32_size
      [] decoder = "decode_validate" -> uint32_size
      [] decoder = "decode_stealth" -> stealth_row_size
      [] decoder = "decode_history" -> history_row_size
      [] decoder = "decode_expanded_history" -> expanded_row_size

SeqsUpTo(S, n) == UNION { [1..k -> S] : k \in 0..n }

Tails(decoder) ==
    { t \in 0..(ItemSize(decoder) - 1) :
        t <= MaxTail \/ t = ItemSize(decoder) - 1 }

RowLimit(decoder) ==
    IF decoder = "decode_history" THEN MaxHistoryRows ELSE MaxRows

Payloads(decoder) ==
    [rows : SeqsUpTo(Items(decoder), RowLimit(decoder)),
     tail : Tails(decoder)]

RECURSIVE RowBytes(_, _, _)
RowBytes(decoder, rows, i) ==
    IF i > Len(rows) THEN 0
    ELSE (IF decoder = "decode_transaction" THEN rows[i].size
          ELSE ItemSize(decoder)) + RowBytes(decoder, rows, i + 1)

\* The byte length of a payload.
PayloadSize(decoder, p) == RowBytes(decoder, p.rows, 1) + p.tail

(***************************************************************************)
(* Response handlers.  Each returns what the call did: the value the       *)
(* decoder returned (ok), how often it invoked the success handler         *)
(* (calls) and with what (arg), how often the history expansion ran        *)
(* (expands), whether its assertion failed (asserted) and which spend row  *)
(* was written to which result row (matches).                              *)
(***************************************************************************)
Failed == [ok |-> FALSE, calls |-> 0, arg |-> <<>>, expands |-> 0,
           asserted |-> FALSE, matches |-> <<>>]

Handled(arg) == [ok |-> TRUE, calls |-> 1, arg |-> arg, expands |-> 0,
                 asserted |-> FALSE, matches |-> <<>>]

\* decode_empty invoking the handler before it looks at the payload.
decode_empty_handler_first(p, ewi) ==
    LET r0 == make_reader(PayloadSize("decode_empty", p))
    IN  IF ~is_exhausted(r0, ewi) THEN [Failed EXCEPT !.calls = 1]
        ELSE Handled(<<>>)

decode_empty(p, ewi) ==
    LET r0 == make_reader(PayloadSize("decode_empty", p))
    IN  IF ~is_exhausted(r0, ewi) THEN Failed ELSE Handled(<<>>)

\* transaction::from_data(): reads the one serialized transaction at the
\* front of the reader; fails when no whole transaction is there.
transaction_from_data(r, rows, i) ==
    read_bytes(r, IF i <= Len(rows) THEN rows[i].size ELSE r.rem + 1)

decode_transaction(p, ewi) ==
    LET r0 == make_reader(PayloadSize("decode_transaction", p))
        r1 == transaction_from_data(r0, p.rows, 1)
    IN  IF ~r1.valid \/ ~is_exhausted(r1, ewi) THEN Failed
        ELSE Handled(p.rows[1])

\* decode_height without the test for bytes left over.
decode_height_unchecked(p, ewi) ==
    LET r0 == make_reader(PayloadSize("decode_height", p))
        r1 == read_bytes(r0, uint32_size)
    IN  IF ~r1.valid THEN Failed ELSE Handled(p.rows[1])

decode_height(p, ewi) ==
    LET r0 == make_reader(PayloadSize("decode_height", p))
        r1 == read_bytes(r0, uint32_size)
        last_height == IF r1.valid THEN p.rows[1] ELSE Garbage
    IN  IF ~is_exhausted(r1, ewi) THEN Failed ELSE Handled(last_height)

\* header::from_data(payload, false): the fixed-size header without a
\* transaction count.
header_from_data(r) == read_bytes(r, header_size)

decode_block_header(p, ewi) ==
    LET r0 == make_reader(PayloadSize("decode_block_header", p))
        r1 == header_from_data(r0)
    IN  IF ~r1.valid \/ ~is_exhausted(r1, ewi) THEN Failed
        ELSE Handled(p.rows[1])

decode_transaction_index(p, ewi) ==
    LET r0 == make_reader(PayloadSize("decode_transaction_index", p))
        r1 == read_bytes(r0, uint32_size)
        block_height == IF r1.valid THEN p.rows[1] ELSE Garbage
        r2 == read_bytes(r1, uint32_size)
        index == IF r2.valid THEN p.rows[2] ELSE Garbage
    IN  IF ~is_exhausted(r2, ewi) THEN Failed
        ELSE Handled(<<block_height, index>>)

RECURSIVE decode_validate_loop(_, _, _, _, _)
decode_validate_loop(p, r, i, unconfirmed, ewi) ==
    IF is_exhausted(r, ewi) THEN Handled(unconfirmed)
    ELSE LET r1 == read_bytes(r, uint32_size)
             value == IF r1.valid THEN p.rows[i] ELSE Garbage
         IN  IF ~r1.valid THEN Failed
             ELSE decode_validate_loop(p, r1, i + 1,
                                       Append(unconfirmed, value), ewi)

decode_validate(p, ewi) ==
    decode_validate_loop(p, make_reader(PayloadSize("decode_validate", p)),
                         1, <<>>, ewi)

\* splice(): concatenation of two byte arrays.
splice(left, right) == left \o right

\* to_array(): the one-byte array of a byte.
to_array(byte) == <<byte>>

\* The stealth row expanded without the reversal.
expand_stealth_row_unreversed(in) ==
    [ephemeral_public_key |->
         splice(to_array(ephemeral_public_key_sign),
                in.ephemeral_public_key_hash),
     public_key_hash |-> in.public_key_hash,
     transaction_hash |-> in.transaction_hash]

expand_stealth_row(in) ==
    [ephemeral_public_key |->
         splice(to_array(ephemeral_public_key_sign),
                in.ephemeral_public_key_hash),
     public_key_hash |-> reverse(in.public_key_hash),
     transaction_hash |-> in.transaction_hash]

\* expand(const stealth_compact::list&)
expand_stealth(compact) ==
    [i \in 1..Len(compact) |-> expand_stealth_row(compact[i])]

RECURSIVE decode_stealth_loop(_, _, _, _, _)
decode_stealth_loop(p, r, i, compact, ewi) ==
    IF is_exhausted(r, ewi) THEN Handled(expand_stealth(compact))
    ELSE LET r1 == read_bytes(r, hash_size)
             r2 == read_bytes(r1, short_hash_size)
             r3 == read_bytes(r2, hash_size)
         IN  IF ~r3.valid THEN Failed
             ELSE decode_stealth_loop(p, r3, i + 1,
                                      Append(compact, p.rows[i]), ewi)

decode_stealth(p, ewi) ==
    decode_stealth_loop(p, make_reader(PayloadSize("decode_stealth", p)),
                        1, <<>>, ewi)

(***************************************************************************)
(* expand(const history_compact::list&)                                    *)
(***************************************************************************)
\* First pass: one result row per output row, its spend unset and the
\* checksum of its point parked in spend_height.
first_pass_row(output) ==
    [output |-> output.point,
     output_height |-> output.height,
     value |-> output.value,
     spend |-> [hash |-> null_hash, index |-> max_uint32],
     spend_height |-> checksum(output.point)]

RECURSIVE first_pass(_, _, _)
first_pass(compact, i, result) ==
    IF i > Len(compact) THEN result
    ELSE first_pass(compact, i + 1,
                    IF compact[i].kind = kind_output
                    THEN Append(result, first_pass_row(compact[i]))
                    ELSE result)

\* The condition without the test that the row is still unspent.
row_matches_spent_too(row, spend) == row.spend_height = spend.value

\* The condition under which the inner loop writes a spend into a row;
\* spend.value is spend.previous_checksum (one field).
row_matches(row, spend) ==
    row.spend_height = spend.value /\ row.spend.hash = null_hash

\* The inner loop: the index of the first row that matches, 0 when the
\* loop runs to the end without a break.
RECURSIVE find_row(_, _, _)
find_row(result, spend, j) ==
    IF j > Len(result) THEN 0
    ELSE IF row_matches(result[j], spend) THEN j
    ELSE find_row(result, spend, j + 1)

\* The row written without its spend height.
populate_keeps_checksum(row, spend) == [row EXCEPT !.spend = spend.point]

\* The body of the if: the row written, and the asserted condition.
populate(row, spend) ==
    [row EXCEPT !.spend = spend.point, !.spend_height = spend.height]

assertion_holds(row, spend) == row.value = spend.value

\* Second pass, over st = [rows, asserted, matches].
RECURSIVE second_pass(_, _, _)
second_pass(compact, i, st) ==
    IF i > Len(compact) THEN st
    ELSE LET spend == compact[i]
             j == IF spend.kind = kind_spend
                  THEN find_row(st.rows, spend, 1) ELSE 0
         IN  second_pass(compact, i + 1,
                 IF j = 0 THEN st
                 ELSE [rows |-> [st.rows EXCEPT
                                     ![j] = populate(st.rows[j], spend)],
                       asserted |-> st.asserted
                           \/ ~assertion_holds(st.rows[j], spend),
                       matches |-> Append(st.matches, <<i, j>>)])

\* The final pass leaving the rows as they are.
final_pass_row_skipped(row) == row

\* Final pass: the checksum is cleared from the rows left unspent.
final_pass_row(row) ==
    IF row.spend.hash = null_hash
    THEN [row EXCEPT !.spend_height = max_uint32]
    ELSE row

final_pass(result) == [k \in 1..Len(result) |-> final_pass_row(result[k])]

expand_history(compact) ==
    LET st == second_pass(compact, 1,
                  [rows |-> first_pass(compact, 1, <<>>),
                   asserted |-> FALSE, matches |-> <<>>])
    IN  [rows |-> final_pass(st.rows), asserted |-> st.asserted,
         matches |-> st.matches]

\* point::from_data(): the hash and the index.
point_from_data(r) == read_bytes(read_bytes(r, hash_size), uint32_size)

RECURSIVE decode_history_loop(_, _, _, _, _)
decode_history_loop(p, r, i, compact, ewi) ==
    IF is_exhausted(r, ewi)
    THEN LET e == expand_history(compact)
         IN  [ok |-> TRUE, calls |-> 1, arg |-> e.rows, expands |-> 1,
              asserted |-> e.asserted, matches |-> e.matches]
    ELSE LET r1 == read_bytes(r, byte_size)
             r2 == point_from_data(r1)
             success == r2.valid
             r3 == read_bytes(r2, uint32_size)
             r4 == read_bytes(r3, uint64_size)
         IN  IF ~success \/ ~r4.valid THEN Failed
             ELSE decode_history_loop(p, r4, i + 1,
                                      Append(compact, p.rows[i]), ewi)

decode_history(p, ewi) ==
    decode_history_loop(p, make_reader(PayloadSize("decode_history", p)),
                        1, <<>>, ewi)

RECURSIVE decode_expanded_history_loop(_, _, _, _, _)
decode_expanded_history_loop(p, r, i, expanded, ewi) ==
    IF is_exhausted(r, ewi) THEN Handled(expanded)
    ELSE LET r1 == point_from_data(r)
             r2 == read_bytes(r1, uint64_size)
             r3 == read_bytes(r2, uint64_size)
             r4 == point_from_data(r3)
             success == r1.valid /\ r4.valid
             r5 == read_bytes(r4, uint64_size)
         IN  IF ~success \/ ~r5.valid THEN Failed
             ELSE decode_expanded_history_loop(p, r5, i + 1,
                                      Append(expanded, p.rows[i]), ewi)

decode_expanded_history(p, ewi) ==
    decode_expanded_history_loop(p,
        make_reader(PayloadSize("decode_expanded_history", p)), 1, <<>>, ewi)

\* The decoder bound to a request, applied to the reply payload.
Decode(decoder, p, ewi) ==
    CASE decoder = "decode_empty" -> decode_empty(p, ewi)
      [] decoder = "decode_transaction" -> decode_transaction(p, ewi)
      [] decoder = "decode_height" -> decode_height(p, ewi)
      [] decoder = "decode_block_header" -> decode_block_header(p, ewi)
      [] decoder = "decode_transaction_index" ->
             decode_transaction_index(p, ewi)
      [] decoder = "decode_validate" -> decode_validate(p, ewi)
      [] decoder = "decode_stealth" -> decode_stealth(p, ewi)
      [] decoder = "decode_history" -> decode_history(p, ewi)
      [] decoder = "decode_expanded_history" ->
             decode_expanded_history(p, ewi)

(***************************************************************************)
(* Arguments of the facade calls.                                          *)
(***************************************************************************)
TxHashes == {hash_a}
Addresses == {[version |-> 0, hash |-> short_a]}
FromHeights == {100}

\* binary: a bit string, known by its size in bits (its blocks hold
\* ceil(size / 8) bytes).
PrefixSizes == {0, byte_bits, max_uint8 - 1, max_uint8, max_uint8 + 1,
                uint8_modulus + 1, 2 * uint8_modulus - 1}

blocks(size) == (size + byte_bits - 1) \div byte_bits

\* static_cast<uint8_t>
to_uint8(n) == n % uint8_modulus

(***************************************************************************)
(* State.                                                                  *)
(***************************************************************************)
NoCall == [op |-> "none", args |-> <<>>]
NoRequest == [command |-> "none", data |-> <<>>, decoder |-> "none"]
NoPayload == [rows |-> <<>>, tail |-> 0]

Init ==
    /\ pc = "idle"
    /\ call = NoCall
    /\ request = NoRequest
    /\ payload = NoPayload
    /\ returned = FALSE
    /\ on_reply_calls = 0
    /\ on_error_calls = 0
    /\ error_code = "success"
    /\ reply = <<>>
    /\ send_calls = 0
    /\ decoder_calls = 0
    /\ expand_calls = 0
    /\ assert_failed = FALSE
    /\ matches = <<>>

\* dealer::send_request(command, data, on_error, on_reply): the request is
\* handed to the transport, with the error handler and the bound decoder.
send_request(op, args, command, data, decoder) ==
    /\ pc' = "sent"
    /\ call' = [op |-> op, args |-> args]
    /\ request' = [command |-> command, data |-> data, decoder |-> decoder]
    /\ send_calls' = send_calls + 1
    /\ UNCHANGED <<payload, returned, on_reply_calls, on_error_calls,
                   error_code, reply, decoder_calls, expand_calls,
                   assert_failed, matches>>

\* on_error(error::bad_stream); return;  before anything is sent.
reject(op, args) ==
    /\ pc' = "done"
    /\ call' = [op |-> op, args |-> args]
    /\ request' = NoRequest
    /\ on_error_calls' = on_error_calls + 1
    /\ error_code' = "bad_stream"
    /\ UNCHANGED <<payload, returned, on_reply_calls, reply, send_calls,
                   decoder_calls, expand_calls, assert_failed, matches>>

(***************************************************************************)
(* Fetchers.                                                               *)
(***************************************************************************)
protocol_broadcast_transaction ==
    /\ pc = "idle"
    /\ \E tx \in Transactions :
           send_request("protocol_broadcast_transaction", [tx |-> tx],
                        "protocol.broadcast_transaction", [tx |-> tx],
                        "decode_empty")

transaction_pool_validate ==
    /\ pc = "idle"
    /\ \E tx \in Transactions :
           send_request("transaction_pool_validate", [tx |-> tx],
                        "transaction_pool.validate", [tx |-> tx],
                        "decode_validate")

transaction_pool_fetch_transaction ==
    /\ pc = "idle"
    /\ \E tx_hash \in TxHashes :
           send_request("transaction_pool_fetch_transaction",
                        [tx_hash |-> tx_hash],
                        "transaction_pool.fetch_transaction",
                        [hash |-> tx_hash], "decode_transaction")

blockchain_fetch_transaction ==
    /\ pc = "idle"
    /\ \E tx_hash \in TxHashes :
           send_request("blockchain_fetch_transaction", [tx_hash |-> tx_hash],
                        "blockchain.fetch_transaction", [hash |-> tx_hash],
                        "decode_transaction")

blockchain_fetch_last_height ==
    /\ pc = "idle"
    /\ send_request("blockchain_fetch_last_height", <<>>,
                    "blockchain.fetch_last_height", <<>>, "decode_height")

blockchain_fetch_block_header_by_height ==
    /\ pc = "idle"
    /\ \E height \in FromHeights :
           send_request("blockchain_fetch_block_header", [height |-> height],
                        "blockchain.fetch_block_header", [height |-> height],
                        "decode_block_header")

blockchain_fetch_block_header_by_hash ==
    /\ pc = "idle"
    /\ \E block_hash \in TxHashes :
           send_request("blockchain_fetch_block_header",
                        [block_hash |-> block_hash],
                        "blockchain.fetch_block_header", [hash |-> block_hash],
                        "decode_block_header")

blockchain_fetch_transaction_index ==
    /\ pc = "idle"
    /\ \E tx_hash \in TxHashes :
           send_request("blockchain_fetch_transaction_index",
                        [tx_hash |-> tx_hash],
                        "blockchain.fetch_transaction_index",
                        [hash |-> tx_hash], "decode_transaction_index")

\* The size check off by one.
prefix_too_long_off_by_one(size) == size > max_uint8 + 1

\* The size check of the two prefix operations.
prefix_too_long(size) == size > max_uint8

blockchain_fetch_stealth ==
    /\ pc = "idle"
    /\ \E size \in PrefixSizes, from_height \in FromHeights :
           LET args == [size |-> size, from_height |-> from_height]
           IN  IF prefix_too_long(size)
               THEN reject("blockchain_fetch_stealth", args)
               ELSE send_request("blockchain_fetch_stealth", args,
                        "blockchain.fetch_stealth",
                        [size |-> to_uint8(size), blocks |-> blocks(size),
                         from_height |-> from_height],
                        "decode_stealth")

blockchain_fetch_history ==
    /\ pc = "idle"
    /\ \E address \in Addresses, from_height \in FromHeights :
           send_request("blockchain_fetch_history",
                        [address |-> address, from_height |-> from_height],
                        "blockchain.fetch_history",
                        [version |-> address.version,
                         hash |-> reverse(address.hash),
                         from_height |-> from_height],
                        "decode_history")

\* address_fetch_history bound to the compact decoder.
address_fetch_history_compact ==
    /\ pc = "idle"
    /\ \E address \in Addresses, from_height \in FromHeights :
           send_request("address_fetch_history",
                        [address |-> address, from_height |-> from_height],
                        "address.fetch_history",
                        [version |-> address.version,
                         hash |-> reverse(address.hash),
                         from_height |-> from_height],
                        "decode_history")

address_fetch_history ==
    /\ pc = "idle"
    /\ \E address \in Addresses, from_height \in FromHeights :
           send_request("address_fetch_history",
                        [address |-> address, from_height |-> from_height],
                        "address.fetch_history",
                        [version |-> address.version,
                         hash |-> reverse(address.hash),
                         from_height |-> from_height],
                        "decode_expanded_history")

address_fetch_history2 ==
    /\ pc = "idle"
    /\ \E address \in Addresses, from_height \in FromHeights :
           send_request("address_fetch_history2",
                        [address |-> address, from_height |-> from_height],
                        "address.fetch_history2",
                        [version |-> address.version,
                         hash |-> address.hash,
                         from_height |-> from_height],
                        "decode_history")

(***************************************************************************)
(* Subscribers.                                                            *)
(***************************************************************************)
address_subscribe_address ==
    /\ pc = "idle"
    /\ \E address \in Addresses :
           LET size == short_hash_size * byte_bits
           IN  send_request("address_subscribe_address", [address |-> address],
                            "address.subscribe",
                            [type |-> subscribe_address,
                             size |-> to_uint8(size), blocks |-> blocks(size)],
                            "decode_empty")

address_subscribe ==
    /\ pc = "idle"
    /\ \E discriminator \in {subscribe_address, subscribe_stealth},
          size \in PrefixSizes :
           LET args == [discriminator |-> discriminator, size |-> size]
           IN  IF prefix_too_long(size)
               THEN reject("address_subscribe", args)
               ELSE send_request("address_subscribe", args,
                        "address.subscribe",
                        [type |-> discriminator,
                         size |-> to_uint8(size), blocks |-> blocks(size)],
                        "decode_empty")

(***************************************************************************)
(* The transport (dealer): the reply to the outstanding request.           *)
(***************************************************************************)
TransportErrors == {"channel_timeout", "not_found"}

\* A reply payload arrives: the bound decoder runs on it; when it returns
\* false the decode failure goes to the error handler.
Deliver ==
    /\ pc = "sent"
    /\ \E p \in Payloads(request.decoder), ewi \in BOOLEAN :
          \E res \in {Decode(request.decoder, p, ewi)} :
              /\ payload' = p
              /\ returned' = res.ok
              /\ decoder_calls' = decoder_calls + 1
              /\ on_reply_calls' = on_reply_calls + res.calls
              /\ reply' = res.arg
              /\ expand_calls' = expand_calls + res.expands
              /\ assert_failed' = res.asserted
              /\ matches' = res.matches
              /\ IF res.ok
                 THEN UNCHANGED <<on_error_calls, error_code>>
                 ELSE /\ on_error_calls' = on_error_calls + 1
                      /\ error_code' = "bad_stream"
    /\ pc' = "done"
    /\ UNCHANGED <<call, request, send_calls>>

\* The transport reports an error instead of a reply.
TransportError ==
    /\ pc = "sent"
    /\ \E ec \in TransportErrors :
          /\ on_error_calls' = on_error_calls + 1
          /\ error_code' = ec
    /\ pc' = "done"
    /\ UNCHANGED <<call, request, payload, returned, on_reply_calls, reply,
                   send_calls, decoder_calls, expand_calls, assert_failed,
                   matches>>

\* The call is over; the codec keeps nothing of it.
Finish ==
    /\ pc = "done"
    /\ pc' = "idle"
    /\ call' = NoCall
    /\ request' = NoRequest
    /\ payload' = NoPayload
    /\ returned' = FALSE
    /\ on_reply_calls' = 0
    /\ on_error_calls' = 0
    /\ error_code' = "success"
    /\ reply' = <<>>
    /\ send_calls' = 0
    /\ decoder_calls' = 0
    /\ expand_calls' = 0
    /\ assert_failed' = FALSE
    /\ matches' = <<>>

Next ==
    \/ protocol_broadcast_transaction
    \/ transaction_pool_validate
    \/ transaction_pool_fetch_transaction
    \/ blockchain_fetch_transaction
    \/ blockchain_fetch_last_height
    \/ blockchain_fetch_block_header_by_height
    \/ blockchain_fetch_block_header_by_hash
    \/ blockchain_fetch_transaction_index
    \/ blockchain_fetch_stealth
    \/ blockchain_fetch_history
    \/ address_fetch_history
    \/ address_fetch_history2
    \/ address_subscribe_address
    \/ address_subscribe
    \/ Deliver
    \/ TransportError
    \/ Finish

Spec == Init /\ [][Next]_vars

(***************************************************************************)
(* Properties.                                                             *)
(***************************************************************************)
Replied == pc = "done" /\ decoder_calls = 1

\* The decoders whose payload is a sequence of rows of one layout.
Repeating == {"decode_validate", "decode_stealth", "decode_history",
              "decode_expanded_history"}

\* C1: every call that the transport has answered (with a payload, well
\* formed or not, or with an error), and every call rejected locally, has
\* invoked exactly one of the two handlers, once: the error handler alone
\* on local rejection, the success handler alone when the decoder returns
\* true, and no success handler when the decoder returns false.
C1_ExactlyOneHandler ==
    /\ on_reply_calls + on_error_calls <= 1
    /\ pc = "done" => on_reply_calls + on_error_calls = 1
    /\ pc = "done" /\ send_calls = 0 =>
           on_error_calls = 1 /\ on_reply_calls = 0 /\ decoder_calls = 0
    /\ Replied /\ returned => on_reply_calls = 1 /\ on_error_calls = 0
    /\ Replied /\ ~returned => on_reply_calls = 0 /\ on_error_calls = 1

C1_Witness ==
    /\ Replied
    /\ request.decoder = "decode_stealth"
    /\ payload.tail > 0
    /\ ~returned
    /\ on_error_calls = 1
    /\ on_reply_calls = 0

\* The payload made of the first k whole items of p.
WholePrefix(p, k) == [rows |-> SubSeq(p.rows, 1, k), tail |-> 0]

\* A payload the decoder accepts whatever the reader answers after a
\* failed read.
WellFormed(decoder, p) == \A ewi \in BOOLEAN : Decode(decoder, p, ewi).ok

\* The number of bytes of p that follow its first k whole items.
ExtraBytes(decoder, p, k) ==
    PayloadSize(decoder, p) - PayloadSize(decoder, WholePrefix(p, k))

ReadFails(decoder, p) ==
    CASE decoder = "decode_empty" -> FALSE
      [] decoder = "decode_height" ->
             PayloadSize(decoder, p) < uint32_size
      [] decoder = "decode_transaction_index" ->
             PayloadSize(decoder, p) < 2 * uint32_size
      [] decoder \in {"decode_transaction", "decode_block_header"} ->
             Len(p.rows) = 0
      [] decoder \in Repeating -> p.tail > 0

\* C3: a reply on which a read fails or runs past the end of the payload
\* is a decode failure: the decoder returns false and the success handler
\* is not invoked.
C3_ReadFailureIsDecodeFailure ==
    Replied /\ ReadFails(request.decoder, payload) =>
        ~returned /\ on_reply_calls = 0

\* C4: blockchain_fetch_stealth and address_subscribe(discriminator,
\* prefix) send the request, once and with the bit length as the size
\* byte, without invoking the error handler, when the prefix is at most
\* 255 bits long; a longer prefix invokes the error handler once with
\* bad_stream, and then nothing is sent and no decoder runs.
C4_ValidationBoundary ==
    call.op \in {"blockchain_fetch_stealth", "address_subscribe"} =>
        IF call.args.size <= 255
        THEN /\ send_calls = 1
             /\ request.data.size = call.args.size
             /\ pc = "sent" => on_error_calls = 0
        ELSE /\ pc = "done"
             /\ on_error_calls = 1
             /\ error_code = "bad_stream"
             /\ on_reply_calls = 0
             /\ send_calls = 0
             /\ decoder_calls = 0

C4_Witness ==
    /\ call.op = "address_subscribe"
    /\ call.args.size = 256
    /\ on_error_calls = 1
    /\ send_calls = 0

\* A compact history reply that decode_history accepted: payload.rows is
\* the compact list given to expand, reply the list expand returned.
HistoryReturned == Replied /\ request.decoder = "decode_history" /\ returned

IsOutput(row) == row.kind = kind_output
IsSpend(row) == row.kind = kind_spend

\* The output rows of a compact list, in input order.
OutputRows(rows) == SelectSeq(rows, IsOutput)

\* Output row o and spend row s of a two-row list are a matched pair.
MatchedPair(rows, o, s) ==
    /\ Len(rows) = 2
    /\ o # s
    /\ IsOutput(rows[o])
    /\ IsSpend(rows[s])
    /\ rows[s].value = checksum(rows[o].point)

\* The one row that a matched pair expands to.
Resolved(output, spend) ==
    reply = << [output |-> output.point,
                output_height |-> output.height,
                value |-> output.value,
                spend |-> spend.point,
                spend_height |-> spend.height] >>

\* C5 as stated: a matched pair, in either order and with any field
\* values, expands to exactly one row, with the output fields of the
\* output row and the point and height of the spend row.
C5_Original ==
    HistoryReturned =>
        \A o, s \in 1..2 :
            MatchedPair(payload.rows, o, s) =>
                Resolved(payload.rows[o], payload.rows[s])

\* C5 as amended: the same, for a spend row whose point does not have the
\* null hash.
C5_MatchedPair ==
    HistoryReturned =>
        \A o, s \in 1..2 :
            (/\ MatchedPair(payload.rows, o, s)
             /\ payload.rows[s].point.hash # null_hash)
            => Resolved(payload.rows[o], payload.rows[s])

C5_Witness ==
    /\ HistoryReturned
    /\ MatchedPair(payload.rows, 2, 1)
    /\ payload.rows[1].point.hash # null_hash
    /\ payload.rows[2].value # payload.rows[1].value
    /\ Len(reply) = 1
    /\ reply[1].spend = payload.rows[1].point
    /\ reply[1].spend_height = payload.rows[1].height

\* No spend row was written to result row j.
Unmatched(j) == \A a \in 1..Len(matches) : matches[a][2] # j

\* C6: expand returns one row per output row, in order, with the fields of
\* the output row; a row to which no spend row was matched has the spend
\* {null hash, max index} and the spend height max_uint32; and every row
\* with the null hash as spend hash has the spend height max_uint32.
C6_Unmatched ==
    HistoryReturned =>
        LET outputs == OutputRows(payload.rows)
        IN  /\ Len(reply) = Len(outputs)
            /\ \A j \in 1..Len(reply) :
                  /\ reply[j].output = outputs[j].point
                  /\ reply[j].output_height = outputs[j].height
                  /\ reply[j].value = outputs[j].value
                  /\ Unmatched(j) =>
                        /\ reply[j].spend.hash = null_hash
                        /\ reply[j].spend.index = max_uint32
                        /\ reply[j].spend_height = max_uint32
                  /\ reply[j].spend.hash = null_hash =>
                        reply[j].spend_height = max_uint32

C6_Witness ==
    /\ HistoryReturned
    /\ Len(reply) = 2
    /\ Len(matches) = 1
    /\ Unmatched(2)
    /\ reply[1].spend.hash # null_hash
    /\ reply[2].spend = null_point
    /\ reply[2].spend_height = max_uint32

\* C7: the stealth expansion returns a list as long as the compact list
\* in which row i has the sign byte followed by the 32 bytes of row i's
\* ephemeral key hash, row i's public key hash byte-reversed and row i's
\* transaction hash.
C7_StealthExpansion ==
    Replied /\ request.decoder = "decode_stealth" /\ returned =>
        /\ Len(reply) = Len(payload.rows)
        /\ \A i \in 1..Len(reply) :
              /\ Len(reply[i].ephemeral_public_key) = 33
              /\ reply[i].ephemeral_public_key[1] = 2
              /\ \A k \in 1..32 :
                    reply[i].ephemeral_public_key[k + 1]
                        = payload.rows[i].ephemeral_public_key_hash[k]
              /\ Len(reply[i].public_key_hash) = 20
              /\ \A k \in 1..20 :
                    reply[i].public_key_hash[k]
                        = payload.rows[i].public_key_hash[21 - k]
              /\ reply[i].transaction_hash = payload.rows[i].transaction_hash

C7_Witness ==
    /\ Replied
    /\ request.decoder = "decode_stealth"
    /\ returned
    /\ Len(reply) = 2
    /\ payload.rows[1] # payload.rows[2]
    /\ reply[1].public_key_hash # payload.rows[1].public_key_hash
    /\ reply[2].public_key_hash = payload.rows[2].public_key_hash

\* C8 as stated: no call of address.fetch_history or of
\* address.fetch_history2 runs the history expansion.
C8_Original ==
    request.command \in {"address.fetch_history", "address.fetch_history2"}
        => expand_calls = 0

\* C8 as amended: a reply to address.fetch_history is decoded by
\* decode_expanded_history and never runs the history expansion; a reply
\* to address.fetch_history2 is decoded by decode_history, which runs the
\* history expansion once when it accepts the payload and not otherwise.
C8_LegacyRouting ==
    /\ request.command = "address.fetch_history" =>
           /\ request.decoder = "decode_expanded_history"
           /\ expand_calls = 0
           /\ Replied /\ returned => reply = payload.rows
    /\ request.command = "address.fetch_history2" =>
           /\ request.decoder = "decode_history"
           /\ expand_calls = (IF Replied /\ returned THEN 1 ELSE 0)

C8_Witness ==
    /\ request.command = "address.fetch_history"
    /\ Replied
    /\ returned
    /\ Len(reply) = 2
    /\ reply[1].spend = null_point
    /\ expand_calls = 0

\* The spend rows of the list are matched in input order, each to the
\* first result row not matched before whose output has the checksum the
\* spend row names; a spend row for which there is no such row is matched
\* to none; no result row is matched twice, and each matched row holds the
\* point of the spend row matched to it.
FirstMatchWins(rows) ==
    LET outputs == OutputRows(rows)
        Earlier(a, j) == \E b \in 1..(a - 1) : matches[b][2] = j
    IN  /\ \A a, b \in 1..Len(matches) :
              /\ a < b => matches[a][1] < matches[b][1]
              /\ a # b => matches[a][2] # matches[b][2]
        /\ \A a \in 1..Len(matches) :
              LET s == matches[a][1]
                  j == matches[a][2]
              IN  /\ IsSpend(rows[s])
                  /\ checksum(outputs[j].point) = rows[s].value
                  /\ \A i \in 1..(j - 1) :
                        checksum(outputs[i].point) = rows[s].value
                            => Earlier(a, i)
                  /\ reply[j].spend = rows[s].point
        /\ \A s \in 1..Len(rows) :
              (/\ IsSpend(rows[s])
               /\ \A a \in 1..Len(matches) : matches[a][1] # s)
              => \A j \in 1..Len(outputs) :
                    checksum(outputs[j].point) = rows[s].value
                        => \E a \in 1..Len(matches) :
                              matches[a][2] = j /\ matches[a][1] < s

\* C9 as stated: first match wins, for every compact list.
C9_Original == HistoryReturned => FirstMatchWins(payload.rows)

\* C9 as amended: first match wins, for every compact list in which no
\* spend row's point has the null hash.
C9_FirstMatchWins ==
    (/\ HistoryReturned
     /\ \A s \in 1..Len(payload.rows) :
           IsSpend(payload.rows[s]) => payload.rows[s].point.hash # null_hash)
    => /\ FirstMatchWins(payload.rows)
       /\ \A a \in 1..Len(matches) :
             reply[matches[a][2]].spend_height
                 = payload.rows[matches[a][1]].height

C9_Witness ==
    /\ HistoryReturned
    /\ Len(payload.rows) = 3
    /\ IsOutput(payload.rows[1])
    /\ IsOutput(payload.rows[2])
    /\ payload.rows[1].point # payload.rows[2].point
    /\ checksum(payload.rows[1].point) = checksum(payload.rows[2].point)
    /\ IsSpend(payload.rows[3])
    /\ payload.rows[3].point.hash # null_hash
    /\ matches = << <<3, 1>> >>
    /\ reply[1].spend = payload.rows[3].point
    /\ reply[2].spend = null_point

\* C10: BITCOIN_ASSERT(row.value == spend.value) holds whenever a spend
\* row is matched to a result row.
C10_AssertionHolds == ~assert_failed

====
